---- MODULE Spec2Model ----
(***************************************************************************)
(* Stock ledger of the inventory application: the accounts, products,      *)
(* inventory (balance) and inventory_movements tables of DatabaseStorage    *)
(* and the Express handlers that mutate them.                               *)
(*                                                                          *)
(* Numbers: the columns quantity, quantity_change and total_price are       *)
(* PostgreSQL "real" (IEEE binary32).  The model keeps amounts as integers  *)
(* and rounds every stored value to a 24 bit significand (Real below), as   *)
(* the column does.                                                         *)
(***************************************************************************)
EXTENDS Integers, FiniteSets, Sequences, TLC

\* ------------------------------------------------------------ bounds
MaxUserId == 3
MaxProductId == 2
MaxMovementId == 3
NReq == 2
MaxFaults == 2
MaxTime == 2
MaxRows == 3
TicksPerDay == 2

\* ------------------------------------------------- program constants
SignificandBits == 24

Anon == 0

Units == {"kg", "adet"}
Usernames == {"admin", "depo"}
ProductNames == {"un", "seker"}

\* quantity_change / total_price values a request body carries (0 is the
\* falsy value that the handler's field check rejects)
Big == 2 ^ SignificandBits

\* amounts at which a 24 bit significand rounds, and amounts at which it
\* does not
Amounts ==
  { [quantity_change |-> 1, total_price |-> Big],
    [quantity_change |-> Big, total_price |-> 1] }
OneAmount == [quantity_change |-> 1, total_price |-> 3]
SmallAmounts ==
  { [quantity_change |-> 1, total_price |-> 3],
    [quantity_change |-> 2, total_price |-> 5] }
\* a negative quantity_change, and a negative total_price
NegativeAmounts ==
  { [quantity_change |-> 0 - 1, total_price |-> 3],
    [quantity_change |-> 1, total_price |-> 0 - 3] }

\* ------------------------------------------------------------ helpers
Put(f, k, v) == [x \in DOMAIN f \cup {k} |-> IF x = k THEN v ELSE f[x]]

Remove(f, K) == [x \in DOMAIN f \ K |-> f[x]]

Empty == [x \in {} |-> 0]

\* ------------------------------------------------------ real columns
RECURSIVE Spacing(_)
Spacing(a) == IF a < Big THEN 1 ELSE 2 * Spacing(a \div 2)

RoundHalfEven(a, s) ==
  LET lo == (a \div s) * s
      r == a - lo
  IN  IF 2 * r < s THEN lo
      ELSE IF 2 * r > s THEN lo + s
      ELSE IF (lo \div s) % 2 = 0 THEN lo ELSE lo + s

\* the value a "real" column holds after x is written to it
Real(x) == IF x < 0 THEN 0 - RoundHalfEven(0 - x, Spacing(0 - x))
           ELSE RoundHalfEven(x, Spacing(x))

\* -------------------------------------------------------------- state
VARIABLES
  users,            \* table users: id -> account row
  nextUserId,       \* serial of users.id
  products,         \* table products: id -> product row
  nextProductId,    \* serial of products.id
  inventory,        \* table inventory (the balances): id -> row
  nextInventoryId,  \* serial of inventory.id
  movements,        \* table inventory_movements: id -> row
  nextMovementId,   \* serial of inventory_movements.id
  boot,             \* position of the createAdminUser call made at start-up
  req,              \* requests in flight: slot -> handler position and locals
  last,             \* the response sent last: endpoint, caller, id it named, status
  hist,             \* history: what the claims need to remember of the run
  now,              \* the server clock, in ticks
  page              \* the reporting page of the browser: its report and tables

vars == <<users, nextUserId, products, nextProductId, inventory,
          nextInventoryId, movements, nextMovementId, boot, req, last, hist,
          now, page>>

userVars == <<users, nextUserId>>
productVars == <<products, nextProductId>>
ledgerVars == <<inventory, nextInventoryId, movements, nextMovementId>>

Reqs == 1 .. NReq

Idle == [pc |-> "idle"]

\* the flag sets POST /api/users is called with
Flags(a, p, r, m) ==
  [is_admin |-> a, can_add_product |-> p,
   can_view_reports |-> r, can_manage_inventory |-> m]

SecondAdmin == Flags(TRUE, FALSE, FALSE, FALSE)
StockKeeper == Flags(FALSE, FALSE, FALSE, TRUE)
ReportReader == Flags(FALSE, FALSE, TRUE, FALSE)

\* bcrypt.hashSync(password, 10), the salt left out
hashPassword(password) == <<"bcrypt", password>>

\* bcrypt.compareSync(supplied, stored)
comparePasswords(supplied, stored) == stored = hashPassword(supplied)

\* the password a request that creates an account carries
Passwords == {"gizli"}

AdminRow ==
  [username |-> "admin", password |-> hashPassword("1234"),
   is_admin |-> TRUE, can_add_product |-> TRUE,
   can_view_reports |-> TRUE, can_manage_inventory |-> TRUE]

\* ({ password, ...rest }) => rest
WithoutPassword(row) == [f \in DOMAIN row \ {"password"} |-> row[f]]

\* the accounts with a session, and the caller without one
Callers == DOMAIN users \cup {Anon}

isAuthenticated(c) == c \in DOMAIN users

NoTrack == [on |-> FALSE]

\* overlap: two record requests have been in flight at the same time;
\* deleteSeen: a delete-movement request has found its movement;
\* faults: the storage calls that have failed;
\* accepted: the trailing text of the request body stored last
NoHist ==
  [track |-> NoTrack, overlap |-> FALSE, deleteSeen |-> FALSE, faults |-> 0,
   accepted |-> ""]

\* the reporting page before its query has answered
NoPage == [report |-> <<>>, view |-> "none"]

Init ==
  /\ users = Empty
  /\ nextUserId = 1
  /\ products = Empty
  /\ nextProductId = 1
  /\ inventory = Empty
  /\ nextInventoryId = 1
  /\ movements = Empty
  /\ nextMovementId = 1
  /\ boot = "pending"
  /\ req = [r \in Reqs |-> Idle]
  /\ last = [op |-> "none", caller |-> Anon, id |-> 0, status |-> 0]
  /\ hist = NoHist
  /\ now = 0
  /\ page = NoPage

Respond(op, caller, id, status) ==
  last' = [op |-> op, caller |-> caller, id |-> id, status |-> status]

\* a response whose JSON is the set body of account rows
RespondJson(op, caller, id, status, body) ==
  last' = [op |-> op, caller |-> caller, id |-> id, status |-> status,
           body |-> body]

\* ------------------------------------------------------ storage layer
getUserByUsername(us, username) ==
  {i \in DOMAIN us : us[i].username = username}

Admins(us) == {i \in DOMAIN us : us[i].is_admin}

getProductByName(ps, name) == {i \in DOMAIN ps : ps[i].name = name}

\* the rows "select from inventory where product_id = ..." returns
getInventoryItem(inv, productId) ==
  {i \in DOMAIN inv : inv[i].product_id = productId}

MovementsOf(mv, productId) ==
  {i \in DOMAIN mv : mv[i].product_id = productId}

\* users.id is referenced by inventory.updated_by and
\* inventory_movements.user_id: a referenced account cannot be deleted
UserReferenced(inv, mv, id) ==
  \/ \E i \in DOMAIN inv : inv[i].updated_by = id
  \/ \E i \in DOMAIN mv : mv[i].user_id = id

\* a movement row that takes what the body names
MovementRowFromBody(body, userId) ==
  [product_id |-> body.product_id,
   quantity_change |-> Real(body.quantity_change),
   unit |-> body.unit,
   total_price |-> Real(body.total_price),
   movement_type |-> body.movement_type,
   movement_date |-> body.movement_date,
   user_id |-> body.user_id]

\* the row createInventoryMovement inserts
MovementRow(body, userId) ==
  [product_id |-> body.product_id,
   quantity_change |-> Real(body.quantity_change),
   unit |-> body.unit,
   total_price |-> Real(body.total_price),
   movement_type |-> "update",
   movement_date |-> now,
   user_id |-> userId]

\* updateInventory, existing row i: add the deltas, overwrite the unit
UpdatedItem(existing, body, userId) ==
  [existing EXCEPT !.quantity = Real(existing.quantity + body.quantity_change),
                   !.unit = body.unit,
                   !.total_price = Real(existing.total_price + body.total_price),
                   !.last_updated = now,
                   !.updated_by = userId]

\* updateInventory, no row yet: the row is created from the deltas
NewItem(body, userId) ==
  [product_id |-> body.product_id,
   quantity |-> Real(body.quantity_change),
   unit |-> body.unit,
   total_price |-> Real(body.total_price),
   last_updated |-> now,
   updated_by |-> userId]

\* a deletion that also writes the unit of the deleted movement
ReversedItemWithUnit(stored, existing, movement) ==
  [stored EXCEPT !.quantity = Real(existing.quantity - movement.quantity_change),
                 !.unit = movement.unit,
                 !.total_price = Real(existing.total_price - movement.total_price),
                 !.last_updated = now]

\* deleteInventoryMovement: the balance row as stored, with the three
\* columns the update sets computed from the row that was read (existing)
ReversedItem(stored, existing, movement) ==
  [stored EXCEPT !.quantity = Real(existing.quantity - movement.quantity_change),
                 !.total_price = Real(existing.total_price - movement.total_price),
                 !.last_updated = now]

\* ---------------------------------------------------- history (ghost)
\* One recorded movement may be followed: hist.track then carries the
\* balance its product would show had that movement never been recorded,
\* computed with the arithmetic of updateInventory / deleteInventoryMovement.
ShownQuantity(inv, pid) ==
  IF getInventoryItem(inv, pid) = {} THEN 0
  ELSE inv[CHOOSE i \in getInventoryItem(inv, pid) : TRUE].quantity

ShownPrice(inv, pid) ==
  IF getInventoryItem(inv, pid) = {} THEN 0
  ELSE inv[CHOOSE i \in getInventoryItem(inv, pid) : TRUE].total_price

TrackAfterRecord(body, mid, start) ==
  LET t == hist.track IN
  IF t.on
  THEN IF body.product_id = t.pid
       THEN [t EXCEPT !.quantity = Real(t.quantity + body.quantity_change),
                      !.total_price = Real(t.total_price + body.total_price)]
       ELSE t
  ELSE IF start
       THEN [on |-> TRUE, mid |-> mid, pid |-> body.product_id,
             quantity |-> ShownQuantity(inventory, body.product_id),
             total_price |-> ShownPrice(inventory, body.product_id)]
       ELSE NoTrack

TrackAfterDelete(id) ==
  LET t == hist.track IN
  IF ~t.on THEN t
  ELSE IF id = t.mid THEN NoTrack
  ELSE IF movements[id].product_id = t.pid
       THEN [t EXCEPT !.quantity = Real(t.quantity - movements[id].quantity_change),
                      !.total_price = Real(t.total_price - movements[id].total_price)]
       ELSE t

TrackAfterDeleteProduct(pid) ==
  IF hist.track.on /\ hist.track.pid = pid THEN NoTrack ELSE hist.track

\* --------------------------------------------------------- start-up
\* createAdminUser: the bootstrap administrator, created if absent
createAdminUser ==
  /\ boot = "pending"
  /\ boot' = "done"
  /\ IF getUserByUsername(users, "admin") = {}
     THEN /\ users' = Put(users, nextUserId, AdminRow)
          /\ nextUserId' = nextUserId + 1
     ELSE UNCHANGED userVars
  /\ Respond("boot", Anon, 0, 0)
  /\ UNCHANGED <<productVars, ledgerVars, req, hist, now, page>>

\* ------------------------------------------- handlers, run to completion
\* POST /api/users
PostUsers(C, N, F) ==
  \E c \in C \cap Callers, username \in N, flags \in F, password \in Passwords :
    /\ IF ~isAuthenticated(c) THEN
         /\ Respond("postUser", c, 0, 401)
         /\ UNCHANGED userVars
       ELSE IF ~users[c].is_admin THEN
         /\ Respond("postUser", c, 0, 403)
         /\ UNCHANGED userVars
       ELSE IF getUserByUsername(users, username) # {} THEN
         /\ Respond("postUser", c, 0, 400)
         /\ UNCHANGED userVars
       ELSE
         /\ nextUserId <= MaxUserId
         /\ users' = Put(users, nextUserId,
                         [username |-> username,
                          password |-> hashPassword(password)] @@ flags)
         /\ nextUserId' = nextUserId + 1
         /\ RespondJson("postUser", c, nextUserId, 201,
                        {WithoutPassword(users'[nextUserId])})
    /\ UNCHANGED <<productVars, ledgerVars, boot, now, page, req, hist>>

\* a handler without the "cannot delete self" check
DeleteUserCheckNoSelf(us, c, id, admins, target) ==
  IF target # {} /\ (\A t \in target : us[t].is_admin)
     /\ Cardinality(admins) <= 1 THEN 400
  ELSE 0

\* the status DELETE /api/users/:id answers caller c with, before deleteUser
DeleteUserCheck(us, c, id, admins, target) ==
  IF id = c THEN 400
  ELSE IF target # {} /\ (\A t \in target : us[t].is_admin)
          /\ Cardinality(admins) <= 1 THEN 400
  ELSE 0

\* deleteUser: false when the delete statement throws (a referenced row)
deleteUserSucceeds(inv, mv, us, id) ==
  ~(id \in DOMAIN us /\ UserReferenced(inv, mv, id))

DeleteUserStatus(success) == IF success THEN 200 ELSE 404

\* DELETE /api/users/:id
DeleteUsersId(C) ==
  \E c \in C \cap Callers, id \in 1 .. MaxUserId :
    /\ IF ~isAuthenticated(c) THEN
         /\ Respond("deleteUser", c, id, 401)
         /\ UNCHANGED userVars
       ELSE IF ~users[c].is_admin THEN
         /\ Respond("deleteUser", c, id, 403)
         /\ UNCHANGED userVars
       ELSE IF DeleteUserCheck(users, c, id, Admins(users),
                               DOMAIN users \cap {id}) # 0 THEN
         /\ Respond("deleteUser", c, id, 400)
         /\ UNCHANGED userVars
       ELSE
         /\ IF deleteUserSucceeds(inventory, movements, users, id)
            THEN users' = Remove(users, {id})
            ELSE users' = users
         /\ Respond("deleteUser", c, id,
              DeleteUserStatus(deleteUserSucceeds(inventory, movements, users, id)))
         /\ UNCHANGED nextUserId
    /\ UNCHANGED <<productVars, ledgerVars, boot, now, page, req, hist>>

\* POST /api/products
PostProducts(C, N) ==
  \E c \in C \cap Callers, name \in N :
    /\ IF ~isAuthenticated(c) THEN
         /\ Respond("postProduct", c, 0, 401)
         /\ UNCHANGED productVars
       ELSE IF ~users[c].can_add_product /\ ~users[c].is_admin THEN
         /\ Respond("postProduct", c, 0, 403)
         /\ UNCHANGED productVars
       ELSE IF getProductByName(products, name) # {} THEN
         /\ Respond("postProduct", c, 0, 400)
         /\ UNCHANGED productVars
       ELSE
         /\ nextProductId <= MaxProductId
         /\ products' = Put(products, nextProductId,
                            [name |-> name, category |-> "GENEL"])
         /\ nextProductId' = nextProductId + 1
         /\ Respond("postProduct", c, nextProductId, 201)
    /\ UNCHANGED <<userVars, ledgerVars, boot, now, page, req, hist>>

\* DELETE /api/products/:id; deleteProduct removes the movements, then the
\* balance rows, then the product
DeleteProductsId(C) ==
  \E c \in C \cap Callers, id \in 1 .. MaxProductId :
    /\ IF ~isAuthenticated(c) THEN
         /\ Respond("deleteProduct", c, id, 401)
         /\ UNCHANGED <<productVars, ledgerVars, hist>>
       ELSE IF ~users[c].can_add_product /\ ~users[c].is_admin THEN
         /\ Respond("deleteProduct", c, id, 403)
         /\ UNCHANGED <<productVars, ledgerVars, hist>>
       ELSE
         /\ movements' = Remove(movements, MovementsOf(movements, id))
         /\ inventory' = Remove(inventory, getInventoryItem(inventory, id))
         /\ products' = Remove(products, {id})
         /\ hist' = [hist EXCEPT !.track = TrackAfterDeleteProduct(id)]
         /\ Respond("deleteProduct", c, id, 200)
         /\ UNCHANGED <<nextProductId, nextInventoryId, nextMovementId>>
    /\ UNCHANGED <<userVars, boot, now, page, req>>

\* the request bodies of POST /api/inventory/movements: well-formed ones
\* with the amounts A and units U, and one body for each field the handler
\* checks
\* quantity_change, total_price and product_id hold what parseFloat and
\* parseInt return for the field: the number its leading characters spell.
\* trailing is the text that follows that number in the quantity_change
\* field of the request ("" for a numeric field); the parse ignores it.
Body(pid, a, u) ==
  [product_id |-> pid, quantity_change |-> a.quantity_change, unit |-> u,
   total_price |-> a.total_price, has_total_price |-> TRUE, trailing |-> ""]

\* bodies whose quantity_change is a number followed by letters ("2abc")
GarbledBodies(A, U) ==
  {[Body(pid, a, u) EXCEPT !.trailing = "abc"] :
     pid \in 1 .. MaxProductId, a \in A, u \in U}

MalformedBodies ==
  { [product_id |-> 0, quantity_change |-> 1, unit |-> "kg",
     total_price |-> 0, has_total_price |-> TRUE, trailing |-> ""],
    [product_id |-> 1, quantity_change |-> 0, unit |-> "kg",
     total_price |-> 0, has_total_price |-> TRUE, trailing |-> ""],
    [product_id |-> 1, quantity_change |-> 1, unit |-> "",
     total_price |-> 0, has_total_price |-> TRUE, trailing |-> ""],
    [product_id |-> 1, quantity_change |-> 1, unit |-> "kg",
     total_price |-> 0, has_total_price |-> FALSE,
     trailing |-> ""] }

MovementBodies(A, U) ==
  {Body(pid, a, u) : pid \in 1 .. MaxProductId, a \in A, u \in U}
  \cup MalformedBodies

\* the handler's field check
MissingField(body) ==
  \/ body.product_id = 0
  \/ body.quantity_change = 0
  \/ body.unit = ""
  \/ ~body.has_total_price

\* createInventoryMovement throws when product_id references no product
InsertThrows(ps, body) == body.product_id \notin DOMAIN ps

RecordFailureStatus == 500

\* POST /api/inventory/movements
PostInventoryMovements(C, B, S) ==
  \E c \in C \cap Callers, body \in B, start \in S :
    /\ IF ~isAuthenticated(c) THEN
         /\ Respond("record", c, body.product_id, 401)
         /\ UNCHANGED <<ledgerVars, hist>>
       ELSE IF ~users[c].can_manage_inventory /\ ~users[c].is_admin THEN
         /\ Respond("record", c, body.product_id, 403)
         /\ UNCHANGED <<ledgerVars, hist>>
       ELSE IF MissingField(body) THEN
         /\ Respond("record", c, body.product_id, 400)
         /\ UNCHANGED <<ledgerVars, hist>>
       ELSE IF InsertThrows(products, body) THEN
         /\ Respond("record", c, body.product_id, RecordFailureStatus)
         /\ UNCHANGED <<ledgerVars, hist>>
       ELSE
         /\ nextMovementId <= MaxMovementId
         /\ movements' = Put(movements, nextMovementId, MovementRow(body, c))
         /\ nextMovementId' = nextMovementId + 1
         /\ IF getInventoryItem(inventory, body.product_id) # {}
            THEN \E i \in getInventoryItem(inventory, body.product_id) :
                   /\ inventory' = [inventory EXCEPT
                                      ![i] = UpdatedItem(inventory[i], body, c)]
                   /\ UNCHANGED nextInventoryId
            ELSE /\ inventory' = Put(inventory, nextInventoryId, NewItem(body, c))
                 /\ nextInventoryId' = nextInventoryId + 1
         /\ hist' = [hist EXCEPT
                       !.track = TrackAfterRecord(body, nextMovementId, start),
                       !.accepted = body.trailing]
         /\ Respond("record", c, body.product_id, 201)
    /\ UNCHANGED <<userVars, productVars, boot, now, page, req>>

\* a handler that answers 200 whatever deleteInventoryMovement returned
DeleteMovementStatusAlwaysOk(success) == 200

DeleteMovementStatus(success) == IF success THEN 200 ELSE 404

\* DELETE /api/inventory/movements/:id
DeleteInventoryMovementsId(C) ==
  \E c \in C \cap Callers, id \in 1 .. MaxMovementId :
    /\ IF ~isAuthenticated(c) THEN
         /\ Respond("deleteMovement", c, id, 401)
         /\ UNCHANGED <<ledgerVars, hist>>
       ELSE IF ~users[c].can_manage_inventory /\ ~users[c].is_admin THEN
         /\ Respond("deleteMovement", c, id, 403)
         /\ UNCHANGED <<ledgerVars, hist>>
       ELSE IF id \notin DOMAIN movements THEN
         /\ Respond("deleteMovement", c, id, DeleteMovementStatus(FALSE))
         /\ UNCHANGED <<ledgerVars, hist>>
       ELSE
         /\ IF getInventoryItem(inventory, movements[id].product_id) # {}
            THEN \E i \in getInventoryItem(inventory, movements[id].product_id) :
                   inventory' = [inventory EXCEPT
                                   ![i] = ReversedItem(inventory[i], inventory[i],
                                                      movements[id])]
            ELSE inventory' = inventory
         /\ movements' = Remove(movements, {id})
         /\ hist' = [hist EXCEPT !.track = TrackAfterDelete(id),
                                 !.deleteSeen = TRUE]
         /\ Respond("deleteMovement", c, id, DeleteMovementStatus(TRUE))
         /\ UNCHANGED <<nextInventoryId, nextMovementId>>
    /\ UNCHANGED <<userVars, productVars, boot, now, page, req>>

\* ------------------------------- handlers with a failing storage call
\* POST /api/inventory/movements when the storage call named by step
\* throws: the handler's catch answers 500; what the calls before it wrote
\* stays written.
PostInventoryMovementsFailing(C, B) ==
  \E c \in C \cap Callers, body \in B,
     step \in {"createInventoryMovement", "getInventoryItem", "updateInventory"} :
    /\ hist.faults < MaxFaults
    /\ hist' = [hist EXCEPT !.faults = @ + 1]
    /\ isAuthenticated(c)
    /\ users[c].can_manage_inventory \/ users[c].is_admin
    /\ ~MissingField(body)
    /\ IF step = "createInventoryMovement" \/ InsertThrows(products, body)
       THEN UNCHANGED <<movements, nextMovementId>>
       ELSE /\ nextMovementId <= MaxMovementId
            /\ movements' = Put(movements, nextMovementId, MovementRow(body, c))
            /\ nextMovementId' = nextMovementId + 1
    /\ Respond("record", c, body.product_id, RecordFailureStatus)
    /\ UNCHANGED <<userVars, productVars, inventory, nextInventoryId,
                   boot, now, page, req>>

\* DELETE /api/inventory/movements/:id when the storage call named by step
\* throws: deleteInventoryMovement's catch returns false and the handler
\* answers 404; what the calls before it wrote stays written.
DeleteInventoryMovementsIdFailing(C) ==
  \E c \in C \cap Callers, id \in 1 .. MaxMovementId,
     step \in {"selectMovement", "selectInventory", "update", "delete"} :
    /\ hist.faults < MaxFaults
    /\ hist' = [hist EXCEPT !.faults = @ + 1]
    /\ isAuthenticated(c)
    /\ users[c].can_manage_inventory \/ users[c].is_admin
    /\ IF step = "delete" /\ id \in DOMAIN movements
          /\ getInventoryItem(inventory, movements[id].product_id) # {}
       THEN \E i \in getInventoryItem(inventory, movements[id].product_id) :
              inventory' = [inventory EXCEPT
                              ![i] = ReversedItem(inventory[i], inventory[i],
                                                      movements[id])]
       ELSE inventory' = inventory
    /\ Respond("deleteMovement", c, id, DeleteMovementStatus(FALSE))
    /\ UNCHANGED <<userVars, productVars, nextInventoryId, movements,
                   nextMovementId, boot, now, page, req>>

\* ------------------------------------- handlers, one statement a step
\* Each storage call of a handler is one statement of its own on the
\* database (no handler opens a transaction): the steps of the requests in
\* flight interleave.  req[r] holds the locals of the request in slot r.
InFlight(op) == {r \in Reqs : req[r].pc # "idle" /\ req[r].op = op}

\* POST /api/inventory/movements up to the end of createInventoryMovement
RecordInsert(r, C, B) ==
  \E c \in C \cap Callers, body \in B :
    /\ req[r].pc = "idle"
    /\ IF ~isAuthenticated(c) THEN
         /\ Respond("record", c, body.product_id, 401)
         /\ UNCHANGED <<movements, nextMovementId, req, hist>>
       ELSE IF ~users[c].can_manage_inventory /\ ~users[c].is_admin THEN
         /\ Respond("record", c, body.product_id, 403)
         /\ UNCHANGED <<movements, nextMovementId, req, hist>>
       ELSE IF MissingField(body) THEN
         /\ Respond("record", c, body.product_id, 400)
         /\ UNCHANGED <<movements, nextMovementId, req, hist>>
       ELSE IF InsertThrows(products, body) THEN
         /\ Respond("record", c, body.product_id, RecordFailureStatus)
         /\ UNCHANGED <<movements, nextMovementId, req, hist>>
       ELSE
         /\ nextMovementId <= MaxMovementId
         /\ movements' = Put(movements, nextMovementId, MovementRow(body, c))
         /\ nextMovementId' = nextMovementId + 1
         /\ req' = [req EXCEPT ![r] = [pc |-> "read", op |-> "record",
                                       caller |-> c, body |-> body]]
         /\ hist' = [hist EXCEPT !.overlap = @ \/ InFlight("record") # {}]
         /\ UNCHANGED last
    /\ UNCHANGED <<userVars, productVars, inventory, nextInventoryId, boot, now, page>>

\* updateInventory: getInventoryItem
RecordRead(r) ==
  /\ req[r].pc = "read"
  /\ IF getInventoryItem(inventory, req[r].body.product_id) # {}
     THEN \E i \in getInventoryItem(inventory, req[r].body.product_id) :
            req' = [req EXCEPT ![r] = [pc |-> "write", existing |-> i,
                                       row |-> inventory[i]] @@ @]
     ELSE req' = [req EXCEPT ![r] = [pc |-> "write", existing |-> 0] @@ @]
  /\ UNCHANGED <<userVars, productVars, ledgerVars, boot, now, page, last, hist>>

\* updateInventory: the update of the row read, or the insert of a new row;
\* then the response
RecordWrite(r) ==
  /\ req[r].pc = "write"
  /\ IF req[r].existing # 0 THEN
       /\ inventory' =
            IF req[r].existing \in DOMAIN inventory
            THEN [inventory EXCEPT ![req[r].existing] =
                    UpdatedItem(req[r].row, req[r].body, req[r].caller)]
            ELSE inventory
       /\ UNCHANGED nextInventoryId
       /\ Respond("record", req[r].caller, req[r].body.product_id, 201)
     ELSE IF InsertThrows(products, req[r].body) THEN
       /\ UNCHANGED <<inventory, nextInventoryId>>
       /\ Respond("record", req[r].caller, req[r].body.product_id,
                  RecordFailureStatus)
     ELSE
       /\ inventory' = Put(inventory, nextInventoryId,
                           NewItem(req[r].body, req[r].caller))
       /\ nextInventoryId' = nextInventoryId + 1
       /\ Respond("record", req[r].caller, req[r].body.product_id, 201)
  /\ req' = [req EXCEPT ![r] = Idle]
  /\ UNCHANGED <<userVars, productVars, movements, nextMovementId, boot, now, page, hist>>

\* DELETE /api/inventory/movements/:id up to the select of the movement
DeleteFind(r, C) ==
  \E c \in C \cap Callers, id \in 1 .. MaxMovementId :
    /\ req[r].pc = "idle"
    /\ IF ~isAuthenticated(c) THEN
         /\ Respond("deleteMovement", c, id, 401)
         /\ UNCHANGED <<req, hist>>
       ELSE IF ~users[c].can_manage_inventory /\ ~users[c].is_admin THEN
         /\ Respond("deleteMovement", c, id, 403)
         /\ UNCHANGED <<req, hist>>
       ELSE IF id \notin DOMAIN movements THEN
         /\ Respond("deleteMovement", c, id, DeleteMovementStatus(FALSE))
         /\ UNCHANGED <<req, hist>>
       ELSE
         /\ req' = [req EXCEPT ![r] = [pc |-> "readInventory",
                                       op |-> "deleteMovement", caller |-> c,
                                       id |-> id, movement |-> movements[id]]]
         /\ hist' = [hist EXCEPT !.deleteSeen = TRUE]
         /\ UNCHANGED last
    /\ UNCHANGED <<userVars, productVars, ledgerVars, boot, now, page>>

\* deleteInventoryMovement: the select of the balance row
DeleteReadInventory(r) ==
  /\ req[r].pc = "readInventory"
  /\ IF getInventoryItem(inventory, req[r].movement.product_id) # {}
     THEN \E i \in getInventoryItem(inventory, req[r].movement.product_id) :
            req' = [req EXCEPT ![r] = [pc |-> "update", existing |-> i,
                                       row |-> inventory[i]] @@ @]
     ELSE req' = [req EXCEPT ![r] = [pc |-> "remove"] @@ @]
  /\ UNCHANGED <<userVars, productVars, ledgerVars, boot, now, page, last, hist>>

\* deleteInventoryMovement: the update of the balance row read
DeleteUpdate(r) ==
  /\ req[r].pc = "update"
  /\ inventory' =
       IF req[r].existing \in DOMAIN inventory
       THEN [inventory EXCEPT ![req[r].existing] =
               ReversedItem(inventory[req[r].existing], req[r].row,
                            req[r].movement)]
       ELSE inventory
  /\ req' = [req EXCEPT ![r] = [pc |-> "remove"] @@ @]
  /\ UNCHANGED <<userVars, productVars, nextInventoryId, movements,
                 nextMovementId, boot, now, page, last, hist>>

\* deleteInventoryMovement: the delete of the movement; then the response
DeleteRemove(r) ==
  /\ req[r].pc = "remove"
  /\ movements' = Remove(movements, {req[r].id})
  /\ Respond("deleteMovement", req[r].caller, req[r].id,
             DeleteMovementStatus(TRUE))
  /\ req' = [req EXCEPT ![r] = Idle]
  /\ UNCHANGED <<userVars, productVars, inventory, nextInventoryId,
                 nextMovementId, boot, now, page, hist>>

\* a schema without the references to products.id
ProductNeverReferenced(inv, mv, id) == FALSE

\* inventory.product_id and inventory_movements.product_id reference
\* products.id: a product with such a row cannot be deleted
ProductReferenced(inv, mv, id) ==
  \/ \E i \in DOMAIN inv : inv[i].product_id = id
  \/ \E m \in DOMAIN mv : mv[m].product_id = id

\* DELETE /api/products/:id up to the call of deleteProduct
DeleteProductStart(r, C) ==
  \E c \in C \cap Callers, id \in 1 .. MaxProductId :
    /\ req[r].pc = "idle"
    /\ IF ~isAuthenticated(c) THEN
         /\ Respond("deleteProduct", c, id, 401)
         /\ UNCHANGED req
       ELSE IF ~users[c].can_add_product /\ ~users[c].is_admin THEN
         /\ Respond("deleteProduct", c, id, 403)
         /\ UNCHANGED req
       ELSE
         /\ req' = [req EXCEPT ![r] = [pc |-> "deleteMovements",
                                       op |-> "deleteProduct",
                                       caller |-> c, id |-> id]]
         /\ UNCHANGED last
    /\ UNCHANGED <<userVars, productVars, ledgerVars, boot, now, page, hist>>

\* deleteProduct: delete of the product's movements
DeleteProductMovements(r) ==
  /\ req[r].pc = "deleteMovements"
  /\ movements' = Remove(movements, MovementsOf(movements, req[r].id))
  /\ req' = [req EXCEPT ![r] = [pc |-> "deleteInventory"] @@ @]
  /\ UNCHANGED <<userVars, productVars, inventory, nextInventoryId,
                 nextMovementId, boot, now, page, last, hist>>

\* deleteProduct: delete of the product's balance rows
DeleteProductInventory(r) ==
  /\ req[r].pc = "deleteInventory"
  /\ inventory' = Remove(inventory, getInventoryItem(inventory, req[r].id))
  /\ req' = [req EXCEPT ![r] = [pc |-> "deleteProduct"] @@ @]
  /\ UNCHANGED <<userVars, productVars, movements, nextInventoryId,
                 nextMovementId, boot, now, page, last, hist>>

\* deleteProduct: delete of the product row (it throws while a row stored
\* meanwhile references the product: deleteProduct then returns false);
\* then the response
DeleteProductRow(r) ==
  /\ req[r].pc = "deleteProduct"
  /\ IF ProductReferenced(inventory, movements, req[r].id)
     THEN /\ products' = products
          /\ Respond("deleteProduct", req[r].caller, req[r].id, 404)
     ELSE /\ products' = Remove(products, {req[r].id})
          /\ Respond("deleteProduct", req[r].caller, req[r].id, 200)
  /\ req' = [req EXCEPT ![r] = Idle]
  /\ UNCHANGED <<userVars, nextProductId, ledgerVars, boot, now, page, hist>>

\* POST /api/users up to getUserByUsername
PostUserCheck(r, C, N, F) ==
  \E c \in C \cap Callers, username \in N, flags \in F, password \in Passwords :
    /\ req[r].pc = "idle"
    /\ IF ~isAuthenticated(c) THEN
         /\ Respond("postUser", c, 0, 401)
         /\ UNCHANGED req
       ELSE IF ~users[c].is_admin THEN
         /\ Respond("postUser", c, 0, 403)
         /\ UNCHANGED req
       ELSE IF getUserByUsername(users, username) # {} THEN
         /\ Respond("postUser", c, 0, 400)
         /\ UNCHANGED req
       ELSE
         /\ nextUserId + Cardinality(InFlight("postUser")) <= MaxUserId
         /\ req' = [req EXCEPT ![r] = [pc |-> "createUser", op |-> "postUser",
                                       caller |-> c,
                                       row |-> [username |-> username,
                                                password |-> hashPassword(password)]
                                               @@ flags]]
         /\ UNCHANGED last
    /\ UNCHANGED <<userVars, productVars, ledgerVars, boot, now, page, hist>>

\* POST /api/users: createUser (users.username is unique: the insert of a
\* name stored meanwhile throws, and the handler's catch answers 500)
PostUserInsert(r) ==
  /\ req[r].pc = "createUser"
  /\ IF getUserByUsername(users, req[r].row.username) # {}
     THEN /\ users' = users
          /\ Respond("postUser", req[r].caller, 0, 500)
     ELSE /\ users' = Put(users, nextUserId, req[r].row)
          /\ RespondJson("postUser", req[r].caller, nextUserId, 201,
                         {WithoutPassword(req[r].row)})
  /\ nextUserId' = nextUserId + 1
  /\ req' = [req EXCEPT ![r] = Idle]
  /\ UNCHANGED <<productVars, ledgerVars, boot, now, page, hist>>

\* DELETE /api/users/:id up to the self-delete check
DeleteUserStart(r, C) ==
  \E c \in C \cap Callers, id \in 1 .. MaxUserId :
    /\ req[r].pc = "idle"
    /\ IF ~isAuthenticated(c) THEN
         /\ Respond("deleteUser", c, id, 401)
         /\ UNCHANGED req
       ELSE IF ~users[c].is_admin THEN
         /\ Respond("deleteUser", c, id, 403)
         /\ UNCHANGED req
       ELSE IF id = c THEN
         /\ Respond("deleteUser", c, id, 400)
         /\ UNCHANGED req
       ELSE
         /\ req' = [req EXCEPT ![r] = [pc |-> "getAllUsers", op |-> "deleteUser",
                                       caller |-> c, id |-> id]]
         /\ UNCHANGED last
    /\ UNCHANGED <<userVars, productVars, ledgerVars, boot, now, page, hist>>

\* DELETE /api/users/:id: getAllUsers and the filter of the administrators
DeleteUserGetAll(r) ==
  /\ req[r].pc = "getAllUsers"
  /\ req' = [req EXCEPT ![r] = [pc |-> "getUser", admins |-> Admins(users)] @@ @]
  /\ UNCHANGED <<userVars, productVars, ledgerVars, boot, now, page, last, hist>>

\* DELETE /api/users/:id: getUser(id) and the last-administrator check
DeleteUserGetTarget(r) ==
  /\ req[r].pc = "getUser"
  /\ IF DeleteUserCheck(users, req[r].caller, req[r].id, req[r].admins,
                        DOMAIN users \cap {req[r].id}) # 0
     THEN /\ Respond("deleteUser", req[r].caller, req[r].id, 400)
          /\ req' = [req EXCEPT ![r] = Idle]
     ELSE /\ req' = [req EXCEPT ![r] = [pc |-> "deleteUser"] @@ @]
          /\ UNCHANGED last
  /\ UNCHANGED <<userVars, productVars, ledgerVars, boot, now, page, hist>>

\* DELETE /api/users/:id: deleteUser; then the response
DeleteUserDelete(r) ==
  /\ req[r].pc = "deleteUser"
  /\ IF deleteUserSucceeds(inventory, movements, users, req[r].id)
     THEN users' = Remove(users, {req[r].id})
     ELSE users' = users
  /\ Respond("deleteUser", req[r].caller, req[r].id,
       DeleteUserStatus(deleteUserSucceeds(inventory, movements, users, req[r].id)))
  /\ req' = [req EXCEPT ![r] = Idle]
  /\ UNCHANGED <<nextUserId, productVars, ledgerVars, boot, now, page, hist>>

\* ------------------------------------------------------------ reports
\* the clock advances between requests
Tick ==
  /\ now < MaxTime
  /\ now' = now + 1
  /\ UNCHANGED <<userVars, productVars, ledgerVars, boot, req, last, hist,
               page>>

Times == 0 .. MaxTime

\* the startDate / endDate a report is asked for, as full timestamps
Windows == {[start |-> a, end |-> b] : a \in Times, b \in Times}

\* the orders in which a select without ORDER BY may return the rows S
Orders(S) ==
  {s \in [1 .. Cardinality(S) -> S] :
     \A i \in DOMAIN s, j \in DOMAIN s : i # j => s[i] # s[j]}

\* a window that leaves out the movements stamped at its end
InWindowOpenEnd(mv, start, end) ==
  {m \in DOMAIN mv : mv[m].movement_date >= start /\ mv[m].movement_date < end}

\* where(and(gte(movement_date, start), lte(movement_date, end)))
InWindow(mv, start, end) ==
  {m \in DOMAIN mv : mv[m].movement_date >= start /\ mv[m].movement_date <= end}

\* one row of getInventoryReport: product p with the balance row i read
\* for it (0: none) and the count of its movements in the window
InventoryReportRow(ps, inv, mv, p, i, start, end) ==
  [id |-> p, name |-> ps[p].name, category |-> ps[p].category,
   current_quantity |-> IF i = 0 THEN 0 ELSE inv[i].quantity,
   unit |-> IF i = 0 THEN "" ELSE inv[i].unit,
   total_value |-> IF i = 0 THEN 0 ELSE inv[i].total_price,
   movement_count |->
     Cardinality({m \in InWindow(mv, start, end) : mv[m].product_id = p})]

\* a summary report that may miss a balance row that is stored
getInventoryReportMissing(ps, inv, mv, start, end) ==
  {[k \in DOMAIN order |->
      InventoryReportRow(ps, inv, mv, order[k], pick[order[k]], start, end)] :
     order \in Orders(DOMAIN ps),
     pick \in {f \in [DOMAIN ps -> DOMAIN inv \cup {0}] :
                 \A p \in DOMAIN ps :
                   f[p] \in getInventoryItem(inv, p) \cup {0}}}

\* getInventoryReport: the results the call may return (getAllProducts has
\* no ORDER BY; getInventoryItem takes the first row of an unordered select)
getInventoryReport(ps, inv, mv, start, end) ==
  {[k \in DOMAIN order |->
      InventoryReportRow(ps, inv, mv, order[k], pick[order[k]], start, end)] :
     order \in Orders(DOMAIN ps),
     pick \in {f \in [DOMAIN ps -> DOMAIN inv \cup {0}] :
                 \A p \in DOMAIN ps :
                   IF getInventoryItem(inv, p) = {} THEN f[p] = 0
                   ELSE f[p] \in getInventoryItem(inv, p)}}

\* one row of getDetailedMovementsReport: the movement joined to its product
DetailedRow(ps, mv, m) ==
  [id |-> m, product_name |-> ps[mv[m].product_id].name,
   product_category |-> ps[mv[m].product_id].category] @@ mv[m]

\* the detailed report without its ORDER BY
getDetailedMovementsReportUnordered(ps, mv, start, end) ==
  {[k \in DOMAIN order |-> DetailedRow(ps, mv, order[k])] :
     order \in Orders({m \in InWindow(mv, start, end) :
                         mv[m].product_id \in DOMAIN ps})}

\* getDetailedMovementsReport: inner join with products, the window, ORDER
\* BY movement_date DESC (rows of one date in any order)
getDetailedMovementsReport(ps, mv, start, end) ==
  {[k \in DOMAIN order |-> DetailedRow(ps, mv, order[k])] :
     order \in {s \in Orders({m \in InWindow(mv, start, end) :
                                 mv[m].product_id \in DOMAIN ps}) :
                  \A i \in DOMAIN s, j \in DOMAIN s :
                    i < j => mv[s[i]].movement_date >= mv[s[j]].movement_date}}

\* a date parameter of a report request: absent, a bare calendar date (at:
\* the day), or a full timestamp (at: the instant)
NoDate == [kind |-> "none", at |-> 0]

BareDate(day) == [kind |-> "date", at |-> day]

Timestamp(t) == [kind |-> "timestamp", at |-> t]

\* requests that name the window w by two full timestamps
Stamped(W) ==
  {[start |-> Timestamp(w.start), end |-> Timestamp(w.end)] : w \in W}

\* a bare endDate taken as the first instant of its day
EndOfDayAtMidnight(day) == day * TicksPerDay

\* new Date(`${startDate}T00:00:00.000Z`)
StartOfDay(day) == day * TicksPerDay

\* new Date(`${endDate}T23:59:59.999Z`)
EndOfDay(day) == day * TicksPerDay + TicksPerDay - 1

\* startDate and endDate as handed to the storage: the defaults are the
\* epoch and today
ReportWindow(q) ==
  [start |-> IF q.start.kind = "none" THEN 0
             ELSE IF q.start.kind = "date" THEN StartOfDay(q.start.at)
             ELSE q.start.at,
   end |-> IF q.end.kind = "none" THEN now
           ELSE IF q.end.kind = "date" THEN EndOfDay(q.end.at)
           ELSE q.end.at]

\* again: the response sent before this one answered the same read
RespondRows(op, caller, status, q, w, rows) ==
  last' = [op |-> op, caller |-> caller, id |-> 0, status |-> status,
           query |-> q, window |-> w, rows |-> rows,
           again |-> (last.op = op /\ last.status = status
                        /\ last.window = w)]

\* a report route that lets only administrators in
ReportDeniedUnlessAdmin(c) ==
  IF ~isAuthenticated(c) THEN 401
  ELSE IF ~users[c].is_admin THEN 403
  ELSE 0

\* the permission check of the report routes
ReportDenied(c) ==
  IF ~isAuthenticated(c) THEN 401
  ELSE IF ~users[c].can_view_reports /\ ~users[c].is_admin THEN 403
  ELSE 0

\* GET /api/reports/inventory and GET /api/reports/movements: both answer
\* with getDetailedMovementsReport
GetReportsDetailed(C, O, Q) ==
  \E c \in C \cap Callers, op \in O, q \in Q :
    /\ IF ReportDenied(c) # 0
       THEN Respond(op, c, 0, ReportDenied(c))
       ELSE LET w == ReportWindow(q) IN
            \E rows \in getDetailedMovementsReport(products, movements,
                                                   w.start, w.end) :
              RespondRows(op, c, 200, q, w, rows)
    /\ UNCHANGED <<userVars, productVars, ledgerVars, boot, now, page, req, hist>>

ReportTypes == {"detailed", "summary", "pdf"}

\* GET /api/reports/export/:type; rows: the report handed to generateExcel
GetReportsExport(C, T, Q) ==
  \E c \in C \cap Callers, type \in T, q \in Q :
    /\ IF ReportDenied(c) # 0 THEN
         Respond("export", c, 0, ReportDenied(c))
       ELSE IF type # "detailed" /\ type # "summary" THEN
         Respond("export", c, 0, 400)
       ELSE IF type = "detailed" THEN
         LET w == ReportWindow(q) IN
         \E rows \in getDetailedMovementsReport(products, movements,
                                                 w.start, w.end) :
           RespondRows("exportDetailed", c, 200, q, w, rows)
       ELSE
         LET w == ReportWindow(q) IN
         \E rows \in getInventoryReport(products, inventory, movements,
                                         w.start, w.end) :
           RespondRows("exportSummary", c, 200, q, w, rows)
    /\ UNCHANGED <<userVars, productVars, ledgerVars, boot, now, page, req, hist>>

\* GET /api/users
GetUsers(C) ==
  \E c \in C \cap Callers :
    /\ IF ~isAuthenticated(c) THEN Respond("getUsers", c, 0, 401)
       ELSE IF ~users[c].is_admin THEN Respond("getUsers", c, 0, 403)
       ELSE RespondJson("getUsers", c, 0, 200,
                        {WithoutPassword(users[u]) : u \in DOMAIN users})
    /\ UNCHANGED <<userVars, productVars, ledgerVars, boot, now, page, req, hist>>

\* POST /api/register
PostRegister(C, N, F) ==
  \E c \in C \cap Callers, username \in N, flags \in F, password \in Passwords :
    /\ IF ~isAuthenticated(c) THEN
         /\ Respond("register", c, 0, 401)
         /\ UNCHANGED userVars
       ELSE IF ~users[c].is_admin THEN
         /\ Respond("register", c, 0, 403)
         /\ UNCHANGED userVars
       ELSE IF getUserByUsername(users, username) # {} THEN
         /\ Respond("register", c, 0, 400)
         /\ UNCHANGED userVars
       ELSE
         /\ nextUserId <= MaxUserId
         /\ users' = Put(users, nextUserId,
                         [username |-> username,
                          password |-> hashPassword(password)] @@ flags)
         /\ nextUserId' = nextUserId + 1
         /\ RespondJson("register", c, nextUserId, 201, {users'[nextUserId]})
    /\ UNCHANGED <<productVars, ledgerVars, boot, now, page, req, hist>>

\* POST /api/login: the LocalStrategy, then req.login and res.json(user)
PostLogin(N, P) ==
  \E username \in N, password \in P :
    /\ IF getUserByUsername(users, username) = {} THEN
         Respond("login", Anon, 0, 401)
       ELSE \E u \in getUserByUsername(users, username) :
         IF ~comparePasswords(password, users[u].password)
         THEN Respond("login", Anon, 0, 401)
         ELSE RespondJson("login", Anon, u, 200, {users[u]})
    /\ UNCHANGED <<userVars, productVars, ledgerVars, boot, now, page, req, hist>>

\* GET /api/user
GetUser(C) ==
  \E c \in C \cap Callers :
    /\ IF ~isAuthenticated(c) THEN Respond("getUser", c, 0, 401)
       ELSE RespondJson("getUser", c, c, 200, {users[c]})
    /\ UNCHANGED <<userVars, productVars, ledgerVars, boot, now, page, req, hist>>

\* GET /api/products: the rows of getAllProducts, with no check of the
\* session
GetProducts(C) ==
  \E c \in C \cap Callers :
    /\ RespondJson("getProducts", c, 0, 200,
                   {products[p] : p \in DOMAIN products})
    /\ UNCHANGED <<userVars, productVars, ledgerVars, boot, now, page, req, hist>>

\* the name of a product, undefined ("") when the product is not stored
ProductName(ps, p) == IF p \in DOMAIN ps THEN ps[p].name ELSE ""

\* GET /api/inventory: the rows of getAllInventory, each with its
\* product's name, with no check of the session
GetInventory(C) ==
  \E c \in C \cap Callers :
    /\ RespondJson("getInventory", c, 0, 200,
                   {[product_id |-> inventory[i].product_id,
                     quantity |-> inventory[i].quantity,
                     total_price |-> inventory[i].total_price,
                     product_name |-> ProductName(products, inventory[i].product_id)]
                      : i \in DOMAIN inventory})
    /\ UNCHANGED <<userVars, productVars, ledgerVars, boot, now, page, req, hist>>

\* getLatestInventoryMovements with the default limit of 10, above the
\* number of movements here: the movements joined with their products
getLatestInventoryMovements(ps, ms) ==
  {[id |-> m,
    product_id |-> ms[m].product_id,
    quantity_change |-> ms[m].quantity_change,
    total_price |-> ms[m].total_price,
    product_name |-> ps[ms[m].product_id].name]
     : m \in {k \in DOMAIN ms : ms[k].product_id \in DOMAIN ps}}

\* GET /api/inventory/movements/latest, with no check of the session
GetInventoryMovementsLatest(C) ==
  \E c \in C \cap Callers :
    /\ RespondJson("getLatestMovements", c, 0, 200,
                   getLatestInventoryMovements(products, movements))
    /\ UNCHANGED <<userVars, productVars, ledgerVars, boot, now, page, req, hist>>

\* a deserializeUser that takes a session without its account for no
\* session
deserializeUserAsAnonymous(us, id) == IF id \in DOMAIN us THEN 0 ELSE 401

\* passport.deserializeUser: done(null, user) (0), or done(new Error(...))
\* for an id whose account is not stored, which ends the request with 500
\* before any route is reached
deserializeUser(us, id) == IF id \in DOMAIN us THEN 0 ELSE 500

\* a request to any route that carries the session of an account that has
\* been deleted
RequestOfDeletedAccount(C) ==
  \E c \in C :
    /\ 1 <= c /\ c < nextUserId
    /\ deserializeUser(users, c) # 0
    /\ Respond("request", c, 0, deserializeUser(users, c))
    /\ UNCHANGED <<userVars, productVars, ledgerVars, boot, now, page, req, hist>>

\* ----------------------------------------------------- reporting page
\* The page computes with JavaScript numbers (IEEE binary64): every sum is
\* rounded to a 53 bit significand.  A quantity of the page is held as
\* hi * 2^DoubleBits + lo with a small lo >= 0, or with hi = 0, because the
\* integers of TLC end below 2^31.  The total prices of the reports that
\* are modelled stay far below 2^DoubleBits, where the sums of integers
\* are exact: they are plain integers.
DoubleBits == 53

Num(hi, lo) == [hi |-> hi, lo |-> lo]

\* the distance between neighbouring binary64 values from hi * 2^DoubleBits
\* on
RECURSIVE HighSpacing(_)
HighSpacing(hi) == IF hi = 0 THEN 1 ELSE 2 * HighSpacing(hi \div 2)

\* the JavaScript number that results from the exact value x
Double(x) == Num(x.hi, RoundHalfEven(x.lo, HighSpacing(x.hi)))

\* x + y of two numbers that are not negative
Plus(x, y) == Double(Num(x.hi + y.hi, x.lo + y.lo))

Abs(x) == IF x < 0 THEN 0 - x ELSE x

\* Math.abs
MathAbs(x) == Num(x.hi, Abs(x.lo))

Positive(x) == x.hi > 0 \/ x.lo > 0

Number(sign, int, frac) ==
  [kind |-> "number", sign |-> sign, int |-> int, frac |-> frac]

\* '0.00'
ZeroText == Number(1, 0, 0)

\* (n / d).toFixed(2) for a total price n: the text of the quotient, its
\* magnitude rounded to hundredths, a tie to the larger one; a division by
\* zero gives Infinity, or NaN for 0 / 0; a quotient by 2^DoubleBits or
\* more is less than half a hundredth
QuotientToFixed2(n, d) ==
  IF d = Num(0, 0) THEN
    [kind |-> IF n = 0 THEN "NaN" ELSE "Infinity",
     sign |-> IF n < 0 THEN 0 - 1 ELSE 1, int |-> 0, frac |-> 0]
  ELSE IF d.hi > 0 THEN Number(IF n < 0 THEN 0 - 1 ELSE 1, 0, 0)
  ELSE
    LET sign == IF (n < 0) # (d.lo < 0) /\ n # 0 THEN 0 - 1 ELSE 1
        q == Abs(n) \div Abs(d.lo)
        r == Abs(n) % Abs(d.lo)
        tenths == (10 * r) \div Abs(d.lo)
        r1 == (10 * r) % Abs(d.lo)
        hundredths == (10 * r1) \div Abs(d.lo)
        r2 == (10 * r1) % Abs(d.lo)
        cents == 10 * tenths + hundredths
                   + IF 2 * r2 >= Abs(d.lo) THEN 1 ELSE 0
    IN  IF cents = 100 THEN Number(sign, q + 1, 0)
        ELSE Number(sign, q, cents)

\* a summary row that divides whatever the quantity of its group is
SummaryUnitPriceUnguarded(item) ==
  QuotientToFixed2(item.total_price, item.quantity)

\* unitPrice of a row of the summary table
SummaryUnitPrice(item) ==
  IF Positive(item.quantity)
  THEN QuotientToFixed2(item.total_price, item.quantity)
  ELSE ZeroText

\* unitPrice of a row of the detailed table
DetailedUnitPrice(item) ==
  IF item.total_price # 0 /\ item.quantity_change # Num(0, 0)
  THEN QuotientToFixed2(item.total_price, MathAbs(item.quantity_change))
  ELSE ZeroText

\* report.sort((a, b) => b.movement_date - a.movement_date): a stable sort,
\* newest first
RECURSIVE SortNewestFirst(_)
SortNewestFirst(s) ==
  IF s = <<>> THEN <<>>
  ELSE LET newest == CHOOSE i \in DOMAIN s :
                       \A j \in DOMAIN s :
                         \/ s[j].movement_date < s[i].movement_date
                         \/ s[j].movement_date = s[i].movement_date /\ i <= j
       IN  <<s[newest]>> \o
           SortNewestFirst(SubSeq(s, 1, newest - 1) \o
                           SubSeq(s, newest + 1, Len(s)))

Front(s) == SubSeq(s, 1, Len(s) - 1)

\* report.reduce((sum, item) => sum + (item.total_price || 0), 0)
RECURSIVE TotalValue(_)
TotalValue(s) ==
  IF s = <<>> THEN 0
  ELSE TotalValue(Front(s)) + s[Len(s)].total_price

\* report.reduce((sum, item) => sum + Math.abs(item.quantity_change || 0), 0)
RECURSIVE TotalQuantity(_)
TotalQuantity(s) ==
  IF s = <<>> THEN Num(0, 0)
  ELSE Plus(TotalQuantity(Front(s)), MathAbs(s[Len(s)].quantity_change))

\* the groups of the summary table: report.reduce((acc, item) => ..., {})
RECURSIVE GroupByName(_)
GroupByName(s) ==
  IF s = <<>> THEN Empty
  ELSE LET item == s[Len(s)]
           acc == GroupByName(Front(s))
           key == item.product_name
           old == IF key \in DOMAIN acc THEN acc[key]
                  ELSE [name |-> item.product_name, quantity |-> Num(0, 0),
                        unit |-> item.unit, total_price |-> 0]
       IN  Put(acc, key,
               [old EXCEPT
                  !.quantity = Plus(old.quantity, MathAbs(item.quantity_change)),
                  !.total_price = old.total_price + item.total_price])

\* the detailed tab is shown: the report is sorted in place and every row
\* gets its unit price
RenderDetailed ==
  /\ page.report # <<>>
  /\ LET sorted == SortNewestFirst(page.report) IN
     page' = [report |-> sorted, view |-> "detailed",
              unitPrice |-> [k \in DOMAIN sorted |-> DetailedUnitPrice(sorted[k])]]
  /\ UNCHANGED <<userVars, productVars, ledgerVars, boot, now, req, last, hist>>

\* the summary tab is shown: the two totals and the table of the groups
RenderSummary ==
  /\ page.report # <<>>
  /\ LET acc == GroupByName(page.report) IN
     page' = [report |-> page.report, view |-> "summary",
              totalValue |-> TotalValue(page.report),
              totalQuantity |-> TotalQuantity(page.report),
              groups |-> acc,
              unitPrice |-> [key \in DOMAIN acc |-> SummaryUnitPrice(acc[key])]]
  /\ UNCHANGED <<userVars, productVars, ledgerVars, boot, now, req, last, hist>>

AllCallers == 0 .. MaxUserId

\* The ledger, every request run to completion before the next one starts.
Next ==
  \/ createAdminUser
  \/ PostUsers(AllCallers, {"depo"}, {ReportReader})
  \/ PostProducts(AllCallers, ProductNames)
  \/ DeleteProductsId(AllCallers)
  \/ PostInventoryMovements(AllCallers, MovementBodies(Amounts, {"kg"}), {FALSE})
  \/ DeleteInventoryMovementsId(AllCallers)

Spec == Init /\ [][Next]_vars

\* The accounts, every request run to completion; movements are recorded
\* so that accounts come to be referenced by ledger rows.
AccountNext ==
  \/ createAdminUser
  \/ PostUsers(AllCallers, Usernames, {SecondAdmin, StockKeeper})
  \/ DeleteUsersId(AllCallers)
  \/ PostProducts({1}, {"un"})
  \/ PostInventoryMovements(AllCallers \ {Anon},
                            {Body(1, a, "kg") : a \in SmallAmounts}, {FALSE})

AccountSpec == Init /\ [][AccountNext]_vars

\* The ledger of the administrator, every request run to completion, one
\* recorded movement being followed (hist.track).
RoundTripNext ==
  \/ createAdminUser
  \/ PostProducts({1}, ProductNames)
  \/ PostInventoryMovements({1}, MovementBodies(Amounts, Units) \ MalformedBodies,
                            BOOLEAN)
  \/ DeleteInventoryMovementsId({1})

RoundTripSpec == Init /\ [][RoundTripNext]_vars

\* The accounts under concurrent requests.
AccountConcNext ==
  \/ createAdminUser
  \/ \E r \in Reqs : PostUserCheck(r, AllCallers, Usernames,
                                   {SecondAdmin, ReportReader})
  \/ \E r \in Reqs : PostUserInsert(r)
  \/ \E r \in Reqs : DeleteUserStart(r, AllCallers)
  \/ \E r \in Reqs : DeleteUserGetAll(r)
  \/ \E r \in Reqs : DeleteUserGetTarget(r)
  \/ \E r \in Reqs : DeleteUserDelete(r)

AccountConcSpec == Init /\ [][AccountConcNext]_vars

\* Every endpoint with a permission check, called by accounts of every
\* combination of the four flags.
AllFlags == {Flags(a, p, r, m) : a \in BOOLEAN, p \in BOOLEAN,
                                 r \in BOOLEAN, m \in BOOLEAN}

PolicyWindow == {[start |-> 0, end |-> MaxTime]}

PolicyQueries == Stamped(PolicyWindow)

\* the callers with a session id
Sessions == 1 .. MaxUserId

PolicyBodies == {Body(1, OneAmount, "kg")}

PolicyProfiles == {StockKeeper}

PolicyReports == {"reportInventory", "reportMovements"}

PolicyNext ==
  \/ createAdminUser
  \/ PostUsers(Sessions, {"depo"}, AllFlags)
  \/ PostRegister(Sessions, {"depo"}, PolicyProfiles)
  \/ DeleteUsersId(Sessions)
  \/ GetUsers(Sessions)
  \/ PostProducts(Sessions, {"un"})
  \/ DeleteProductsId(Sessions)
  \/ PostInventoryMovements(Sessions, PolicyBodies, {FALSE})
  \/ DeleteInventoryMovementsId(Sessions)
  \/ GetReportsDetailed(Sessions, PolicyReports, PolicyQueries)
  \/ GetReportsExport(Sessions, ReportTypes, PolicyQueries)

PolicySpec == Init /\ [][PolicyNext]_vars

\* The mutating endpoints called with and without a session, with and
\* without the capability, with well-formed, incomplete and garbled bodies.
ValidationBodies ==
  MovementBodies(SmallAmounts, {"kg"}) \cup GarbledBodies({OneAmount}, {"kg"})
    \cup {Body(1, a, "kg") : a \in NegativeAmounts}

ValidationProfiles == {StockKeeper, ReportReader}

ValidationNext ==
  \/ createAdminUser
  \/ PostUsers(AllCallers, {"depo"}, ValidationProfiles)
  \/ DeleteUsersId(AllCallers)
  \/ PostProducts(AllCallers, {"un"})
  \/ DeleteProductsId(AllCallers)
  \/ PostInventoryMovements(AllCallers, ValidationBodies, {FALSE})
  \/ DeleteInventoryMovementsId(AllCallers)

ValidationSpec == Init /\ [][ValidationNext]_vars

\* Products and accounts created under names that differ in letter case.
CasedProductNames == {"un", "UN"}

CasedUsernames == {"depo", "DEPO", "Admin"}

NameProfiles == {StockKeeper}

NameNext ==
  \/ createAdminUser
  \/ PostUsers({1}, CasedUsernames, NameProfiles)
  \/ PostRegister({1}, CasedUsernames, NameProfiles)
  \/ DeleteUsersId({1})
  \/ PostProducts({1}, CasedProductNames)
  \/ DeleteProductsId({1})

NameSpec == Init /\ [][NameNext]_vars

\* The reporting page over every report of at most MaxRows rows that the
\* server can answer with: quantities that are negative, zero (a body of
\* "0.0" is stored as 0), and large enough for a sum to round; the rows of
\* one instant, so newest first.
PageQuantities == {Num(0, 0 - 1), Num(0, 0), Num(0, 2), Num(1, 0)}

PagePrices == {0, 3}

PageItems ==
  {[product_name |-> n, quantity_change |-> q, unit |-> "kg",
    total_price |-> p, movement_date |-> 0] :
     n \in ProductNames, q \in PageQuantities, p \in PagePrices}

PageReports == UNION {[1 .. n -> PageItems] : n \in 0 .. MaxRows}

PageInit ==
  /\ users = Empty
  /\ nextUserId = 1
  /\ products = Empty
  /\ nextProductId = 1
  /\ inventory = Empty
  /\ nextInventoryId = 1
  /\ movements = Empty
  /\ nextMovementId = 1
  /\ boot = "pending"
  /\ req = [r \in Reqs |-> Idle]
  /\ last = [op |-> "none", caller |-> Anon, id |-> 0, status |-> 0]
  /\ hist = NoHist
  /\ now = 0
  /\ page \in {[report |-> r, view |-> "none"] : r \in PageReports}

PageNext ==
  \/ RenderSummary
  \/ RenderDetailed

PageSpec == PageInit /\ [][PageNext]_vars

\* The reports asked for by calendar dates, by timestamps and without
\* dates, over movements of two days.
DateParameters == {NoDate, BareDate(0), BareDate(1), Timestamp(1)}

DateQueries == {[start |-> s, end |-> e] : s \in DateParameters, e \in DateParameters}

DateNext ==
  \/ createAdminUser
  \/ Tick
  \/ PostProducts({1}, {"un"})
  \/ PostInventoryMovements({1}, PolicyBodies, {FALSE})
  \/ GetReportsDetailed({1}, PolicyReports, DateQueries)
  \/ GetReportsExport({1}, ReportTypes, DateQueries)

DateSpec == Init /\ [][DateNext]_vars

\* The ledger of two products in two units under a running clock: one
\* account records and the administrator deletes.
FrameBodies ==
  {Body(pid, OneAmount, u) : pid \in 1 .. MaxProductId, u \in Units}

FrameProfiles == {StockKeeper}

FrameNext ==
  \/ createAdminUser
  \/ Tick
  \/ PostUsers({1}, {"depo"}, FrameProfiles)
  \/ PostProducts({1}, ProductNames)
  \/ PostInventoryMovements({2}, FrameBodies, {FALSE})
  \/ DeleteInventoryMovementsId({1})

FrameSpec == Init /\ [][FrameNext]_vars

\* Record requests of a stock keeper whose bodies also name a movement
\* kind, the administrator as acting account and the instant 0.
ForgedBodies ==
  {Body(1, OneAmount, "kg") @@
     [movement_type |-> "in", user_id |-> 1, movement_date |-> 0]}

ForgeNext ==
  \/ createAdminUser
  \/ Tick
  \/ PostUsers({1}, {"depo"}, FrameProfiles)
  \/ PostProducts({1}, {"un"})
  \/ PostInventoryMovements({1, 2}, ForgedBodies, {FALSE})
  \/ DeleteInventoryMovementsId({1, 2})

ForgeSpec == Init /\ [][ForgeNext]_vars

\* The account endpoints, with logins under right and wrong passwords.
LoginNames == {"admin", "depo", "kasa"}

LoginPasswords == {"1234", "gizli", "yanlis"}

AuthNext ==
  \/ createAdminUser
  \/ PostUsers(AllCallers, {"depo"}, FrameProfiles)
  \/ PostRegister(AllCallers, {"kasa"}, FrameProfiles)
  \/ GetUsers(AllCallers)
  \/ PostLogin(LoginNames, LoginPasswords)
  \/ GetUser(AllCallers)
  \/ DeleteUsersId(AllCallers)

AuthSpec == Init /\ [][AuthNext]_vars

\* Accounts that are created, act on the ledger and are deleted, and the
\* requests that their sessions send afterwards.
StaleProfiles == {SecondAdmin, StockKeeper}

UserIds == 1 .. MaxUserId

StaleNext ==
  \/ createAdminUser
  \/ PostUsers(AllCallers, {"depo"}, StaleProfiles)
  \/ DeleteUsersId(AllCallers)
  \/ PostProducts(AllCallers, {"un"})
  \/ DeleteProductsId(AllCallers)
  \/ PostInventoryMovements(AllCallers, PolicyBodies, {FALSE})
  \/ DeleteInventoryMovementsId(AllCallers)
  \/ RequestOfDeletedAccount(UserIds)

StaleSpec == Init /\ [][StaleNext]_vars

\* The administrator's products and movements, read by every caller.
ReadNext ==
  \/ createAdminUser
  \/ PostProducts({1}, ProductNames)
  \/ PostInventoryMovements({1}, PolicyBodies, {FALSE})
  \/ DeleteInventoryMovementsId({1})
  \/ GetProducts(AllCallers)
  \/ GetInventory(AllCallers)
  \/ GetInventoryMovementsLatest(AllCallers)
  \/ GetReportsDetailed(AllCallers, {"reportMovements"}, PolicyQueries)

ReadSpec == Init /\ [][ReadNext]_vars

\* The ledger of the administrator under a running clock, and the reports
\* over every window.
ReportBodies == {Body(pid, OneAmount, "kg") : pid \in 1 .. MaxProductId}

ReportWindows == {w \in Windows : w.start <= w.end}

ReportQueries == Stamped(ReportWindows)

ReportNext ==
  \/ createAdminUser
  \/ Tick
  \/ PostProducts({1}, ProductNames)
  \/ PostInventoryMovements({1}, ReportBodies, {FALSE})
  \/ DeleteInventoryMovementsId({1})
  \/ GetReportsDetailed({1}, {"reportMovements"}, ReportQueries)
  \/ GetReportsExport({1}, ReportTypes, ReportQueries)

ReportSpec == Init /\ [][ReportNext]_vars

\* The ledger of the administrator, every request run to completion, a
\* storage call of a ledger request failing now and then.
FaultNext ==
  \/ createAdminUser
  \/ PostProducts({1}, {"un"})
  \/ PostInventoryMovements({1}, MovementBodies(SmallAmounts, {"kg"}), {FALSE})
  \/ DeleteInventoryMovementsId({1})
  \/ PostInventoryMovementsFailing({1}, MovementBodies(SmallAmounts, {"kg"}))
  \/ DeleteInventoryMovementsIdFailing({1})

FaultSpec == Init /\ [][FaultNext]_vars

\* The ledger under concurrent requests of the administrator for one
\* product.  It starts in the state Spec reaches by createAdminUser and the
\* administrator's POST /api/products {name: "un"}.
LedgerConcInit ==
  /\ users = Put(Empty, 1, AdminRow)
  /\ nextUserId = 2
  /\ products = Put(Empty, 1, [name |-> "un", category |-> "GENEL"])
  /\ nextProductId = 2
  /\ inventory = Empty
  /\ nextInventoryId = 1
  /\ movements = Empty
  /\ nextMovementId = 1
  /\ boot = "done"
  /\ req = [r \in Reqs |-> Idle]
  /\ last = [op |-> "postProduct", caller |-> 1, id |-> 1, status |-> 201]
  /\ hist = NoHist
  /\ now = 0
  /\ page = NoPage

LedgerConcNext ==
  \/ \E r \in Reqs : RecordInsert(r, {1}, {Body(1, OneAmount, "kg")})
  \/ \E r \in Reqs : RecordRead(r)
  \/ \E r \in Reqs : RecordWrite(r)
  \/ \E r \in Reqs : DeleteFind(r, {1})
  \/ \E r \in Reqs : DeleteReadInventory(r)
  \/ \E r \in Reqs : DeleteUpdate(r)
  \/ \E r \in Reqs : DeleteRemove(r)

LedgerConcSpec == LedgerConcInit /\ [][LedgerConcNext]_vars

\* Product deletions and record requests, statement by statement.
ProductConcBodies == {Body(1, OneAmount, "kg")}

ProductConcNext ==
  \/ \E r \in Reqs : RecordInsert(r, {1}, ProductConcBodies)
  \/ \E r \in Reqs : RecordRead(r)
  \/ \E r \in Reqs : RecordWrite(r)
  \/ \E r \in Reqs : DeleteProductStart(r, {1})
  \/ \E r \in Reqs : DeleteProductMovements(r)
  \/ \E r \in Reqs : DeleteProductInventory(r)
  \/ \E r \in Reqs : DeleteProductRow(r)
  \/ PostProducts({1}, {"un"})

ProductConcSpec == LedgerConcInit /\ [][ProductConcNext]_vars

\* ------------------------------------------------------------ claims
RECURSIVE SumQuantity(_, _)
SumQuantity(mv, S) ==
  IF S = {} THEN 0
  ELSE LET i == CHOOSE x \in S : TRUE
       IN  mv[i].quantity_change + SumQuantity(mv, S \ {i})

RECURSIVE SumPrice(_, _)
SumPrice(mv, S) ==
  IF S = {} THEN 0
  ELSE LET i == CHOOSE x \in S : TRUE
       IN  mv[i].total_price + SumPrice(mv, S \ {i})

\* the balance of product p is the fold of its stored movements
BalanceIsFold(p) ==
  IF getInventoryItem(inventory, p) = {}
  THEN MovementsOf(movements, p) = {}
  ELSE \A i \in getInventoryItem(inventory, p) :
         /\ inventory[i].quantity =
              SumQuantity(movements, MovementsOf(movements, p))
         /\ inventory[i].total_price =
              SumPrice(movements, MovementsOf(movements, p))

\* C1: after any sequence of record / delete-movement / delete-product
\* requests, each run to completion, every product's balance quantity is
\* the sum of quantity_change of its stored movements and its balance
\* total_price the sum of their total_price; a product without a balance
\* row has no stored movement.
C1_BalanceInvariant == \A p \in 1 .. MaxProductId : BalanceIsFold(p)

AllIdle == \A r \in Reqs : req[r].pc = "idle"

\* C2: a reader of the movements and the balances never sees the movement
\* of a record request without its balance mutation, or the reverse: while
\* record requests run one at a time and nothing is deleted, every state,
\* also one inside a request, shows each balance as the fold of the stored
\* movements.
C2_RecordAtomicToReaders ==
  (~hist.overlap /\ ~hist.deleteSeen)
    => \A p \in 1 .. MaxProductId : BalanceIsFold(p)

\* C3: whatever the interleaving of concurrent record requests (and no
\* deletion), once all of them have completed every balance holds the
\* deltas of all of them.
C3_NoLostUpdate ==
  (AllIdle /\ ~hist.deleteSeen)
    => \A p \in 1 .. MaxProductId : BalanceIsFold(p)

\* C4: whatever the interleaving of a delete-movement request with another
\* delete of the same id or with a record request for the same product
\* (record requests not overlapping each other), once all requests have
\* completed the movement's amounts have been subtracted exactly once:
\* every balance is the fold of the stored movements.
C4_DeleteAtomic ==
  (AllIdle /\ ~hist.overlap /\ hist.deleteSeen)
    => \A p \in 1 .. MaxProductId : BalanceIsFold(p)

\* C5: a record or delete-movement request in which a storage call fails
\* answers with a failure and leaves the stored movements and balances as
\* they were when the request began.
C5_FailureLeavesNoPartialState ==
  [][ (last'.op \in {"record", "deleteMovement"}
       /\ last'.status \in {RecordFailureStatus, 404})
        => UNCHANGED ledgerVars ]_vars

\* the ledger request of the step that has just answered
LedgerCall(op) == last'.op = op /\ last'.status \notin {401, 403, 400}

\* C6: a record request that passed the permission and field checks and
\* names a product id that is not stored is answered NotFound (404) and
\* stores no movement and no balance row.
C6_UnknownProductNotFound ==
  [][ (LedgerCall("record") /\ last'.id \notin DOMAIN products)
        => (last'.status = 404 /\ UNCHANGED ledgerVars) ]_vars

\* C7: deleting a movement id that is not stored answers not-found (404)
\* and changes no balance and no movement; deleting a stored one answers
\* 200 and removes it, and a removed id is never stored again: so the
\* second of two deletions of the same id answers not-found and leaves the
\* balance as the first left it.
C7_DeleteAbsentIsNotFound ==
  [][ /\ LedgerCall("deleteMovement") =>
           IF last'.id \in DOMAIN movements
           THEN last'.status = 200 /\ last'.id \notin DOMAIN movements'
           ELSE last'.status = 404 /\ UNCHANGED ledgerVars
      /\ \A id \in 1 .. MaxMovementId :
           (id < nextMovementId /\ id \notin DOMAIN movements)
             => id \notin DOMAIN movements' ]_vars

\* C7 witness: the only product ever created still exists with its balance
\* row, and a delete request for an id that was stored and has been
\* deleted has just been answered 404.
C7_Witness ==
  /\ last.op = "deleteMovement" /\ last.status = 404
  /\ last.id < nextMovementId /\ last.id \notin DOMAIN movements
  /\ nextProductId = 2 /\ 1 \in DOMAIN products
  /\ getInventoryItem(inventory, 1) # {}

\* C8: recording a movement m and later deleting it, with any other record
\* and delete-movement requests run in between, leaves the quantity and the
\* total_price of the product's balance at the values they would have had,
\* had m never been recorded.
C8_RecordDeleteRoundTrip ==
  [][ (hist.track.on /\ LedgerCall("deleteMovement")
       /\ last'.id = hist.track.mid /\ last'.status = 200)
        => /\ ShownQuantity(inventory', hist.track.pid) = hist.track.quantity
           /\ ShownPrice(inventory', hist.track.pid) = hist.track.total_price ]_vars

\* C9: once the bootstrap administrator has been created, every state
\* reached by interleaved account creations and account deletions holds at
\* least one account with is_admin.
C9_AlwaysAnAdmin == boot = "done" => Admins(users) # {}

\* C10: with exactly one administrator, a request to delete that account
\* is rejected and the accounts are unchanged; with two administrators, a
\* request by one of them to delete the other succeeds and removes it.
C10_LastAdminProtection ==
  [][ (last'.op = "deleteUser" /\ last'.status \notin {401, 403}
       /\ last'.id \in Admins(users))
        => /\ Cardinality(Admins(users)) = 1
                => (last'.status = 400 /\ users' = users)
           /\ (Cardinality(Admins(users)) = 2 /\ last'.caller # last'.id)
                => (last'.status = 200 /\ last'.id \notin DOMAIN users') ]_vars

\* C11: a DELETE /api/users/:id request of an authenticated caller for the
\* caller's own id is rejected (400, or 403 for a caller who is no
\* administrator) and leaves the accounts as they were.
C11_SelfDeleteRejected ==
  [][ (last'.op = "deleteUser" /\ last'.caller \in DOMAIN users
       /\ last'.id = last'.caller)
        => (last'.status \in {400, 403} /\ users' = users) ]_vars

\* C11 witness: an administrator who is not the last one has asked for the
\* deletion of the own account and has been answered 400.
C11_Witness ==
  /\ last.op = "deleteUser" /\ last.status = 400
  /\ last.caller = last.id /\ last.id \in Admins(users)
  /\ Cardinality(Admins(users)) = 2

\* the capability the access policy names for an endpoint
PolicyFlag(op) ==
  CASE op \in {"postProduct", "deleteProduct"} -> "can_add_product"
    [] op \in {"record", "deleteMovement"} -> "can_manage_inventory"
    [] op \in {"reportInventory", "reportMovements", "export",
               "exportDetailed", "exportSummary"} -> "can_view_reports"
    [] op \in {"getUsers", "postUser", "register", "deleteUser"} -> "is_admin"

PolicyOps ==
  {"postProduct", "deleteProduct", "record", "deleteMovement",
   "reportInventory", "reportMovements", "export", "exportDetailed",
   "exportSummary", "getUsers", "postUser", "register", "deleteUser"}

Permitted(u, op) == u.is_admin \/ u[PolicyFlag(op)]

stored == <<userVars, productVars, ledgerVars>>

\* C12: a request of an authenticated caller is answered Forbidden (403)
\* exactly when the caller is no administrator and lacks the capability of
\* the endpoint (can_add_product for products, can_manage_inventory for
\* movements, can_view_reports for reports and exports, is_admin for
\* accounts), and a forbidden request changes no stored state.
C12_AccessPolicy ==
  [][ (last'.caller \in DOMAIN users /\ last'.op \in PolicyOps)
        => /\ (last'.status = 403)
                <=> ~Permitted(users[last'.caller], last'.op)
           /\ last'.status = 403 => UNCHANGED stored ]_vars

\* C12 witness: an account holding every capability but manage-inventory
\* has been refused a movement, with a product stored.
C12_Witness ==
  /\ last.op = "record" /\ last.status = 403
  /\ last.caller \in DOMAIN users
  /\ WithoutPassword(users[last.caller]) = Flags(FALSE, TRUE, TRUE, FALSE) @@ [username |-> "depo"]
  /\ products # Empty

MutatingOps ==
  {"postProduct", "deleteProduct", "record", "deleteMovement", "postUser",
   "deleteUser"}

\* C13: a request to a mutating endpoint without a session is answered 401,
\* one with a session but without the capability 403, whatever its body;
\* a record request whose quantity_change is not a number is not accepted;
\* and a request that is not accepted (no 200 / 201) leaves accounts,
\* products, balances and movements unchanged.
C13_RejectedBeforeAnyWrite ==
  [][ last'.op \in MutatingOps
        => /\ last'.caller \notin DOMAIN users => last'.status = 401
           /\ (last'.caller \in DOMAIN users
               /\ ~Permitted(users[last'.caller], last'.op))
                => last'.status = 403
           /\ (last'.op = "record" /\ last'.status = 201)
                => hist'.accepted = ""
           /\ last'.status \notin {200, 201} => UNCHANGED stored ]_vars

\* C14: no stored movement has a quantity_change that is zero or negative,
\* or a total_price that is negative.
C14_MovementsArePositive ==
  \A m \in DOMAIN movements :
    movements[m].quantity_change > 0 /\ movements[m].total_price >= 0

\* C15: every balance row and every movement references a stored product,
\* in every state, also those between the statements of a product
\* deletion; and when DELETE /api/products/:id has answered 200, the
\* product is gone and no balance row and no movement references its id.
C15_DeleteProductCascades ==
  [][ /\ \A i \in DOMAIN inventory' :
           inventory'[i].product_id \in DOMAIN products'
      /\ \A m \in DOMAIN movements' :
           movements'[m].product_id \in DOMAIN products'
      /\ (last'.op = "deleteProduct" /\ last'.status = 200)
           => /\ last'.id \notin DOMAIN products'
              /\ getInventoryItem(inventory', last'.id) = {}
              /\ MovementsOf(movements', last'.id) = {} ]_vars

\* C15 witness: a product that had a movement and a balance row has been
\* deleted with answer 200.
C15_Witness ==
  /\ last.op = "deleteProduct" /\ last.status = 200
  /\ last.id \notin DOMAIN products /\ last.id < nextProductId
  /\ nextMovementId > 1 /\ nextInventoryId > 1

\* C16: in every state, also while first movements of one product are
\* recorded concurrently, a product has at most one balance row.
C16_OneBalancePerProduct ==
  \A p \in 1 .. MaxProductId : Cardinality(getInventoryItem(inventory, p)) <= 1

\* a name with its letters in lower case
ToLower(name) ==
  CASE name = "UN" -> "un"
    [] name = "DEPO" -> "depo"
    [] name = "Admin" -> "admin"
    [] OTHER -> name

ClashIn(rows, field, name) ==
  {i \in DOMAIN rows : ToLower(rows[i][field]) = ToLower(name)}

\* C17: no two stored products have names that are equal ignoring letter
\* case, no two stored accounts have such usernames, and a creation that
\* was answered 201 stored a name that clashed, ignoring case, with no name
\* stored before it.
C17_NamesUniqueIgnoringCase ==
  [][ /\ \A i \in DOMAIN products' :
           ClashIn(products', "name", products'[i].name) = {i}
      /\ \A i \in DOMAIN users' :
           ClashIn(users', "username", users'[i].username) = {i}
      /\ (last'.op = "postProduct" /\ last'.status = 201)
           => ClashIn(products, "name", products'[last'.id].name) = {}
      /\ (last'.op \in {"postUser", "register"} /\ last'.status = 201)
           => ClashIn(users, "username", users'[last'.id].username) = {} ]_vars

\* the movements of product p stamped within the window w, bounds included
CountedIn(w, p) ==
  {m \in DOMAIN movements :
     /\ movements[m].product_id = p
     /\ w.start <= movements[m].movement_date
     /\ movements[m].movement_date <= w.end}

\* C18: the summary report holds exactly one row for every stored product;
\* the row's movement_count is the number of the product's stored
\* movements stamped within the window, both bounds included, and its
\* quantity, unit and value are those of the product's balance row, or 0,
\* "" and 0 when the product has none.
C18_InventoryReportRows ==
  last.op = "exportSummary" =>
    /\ \A p \in DOMAIN products :
         Cardinality({k \in DOMAIN last.rows : last.rows[k].id = p}) = 1
    /\ \A k \in DOMAIN last.rows :
         LET row == last.rows[k] IN
         /\ row.id \in DOMAIN products
         /\ row.name = products[row.id].name
         /\ row.movement_count = Cardinality(CountedIn(last.window, row.id))
         /\ IF getInventoryItem(inventory, row.id) = {}
            THEN row.current_quantity = 0 /\ row.unit = "" /\ row.total_value = 0
            ELSE \E i \in getInventoryItem(inventory, row.id) :
                   /\ row.current_quantity = inventory[i].quantity
                   /\ row.unit = inventory[i].unit
                   /\ row.total_value = inventory[i].total_price

\* C18 witness: a summary report over a window that ends at the stamp of a
\* movement, holding a product counted once, and a product with a balance
\* whose movements all lie outside the window.
C18_Witness ==
  /\ last.op = "exportSummary"
  /\ \E m \in DOMAIN movements : movements[m].movement_date = last.window.end
  /\ \E k \in DOMAIN last.rows : last.rows[k].movement_count = 1
  /\ \E k \in DOMAIN last.rows :
       last.rows[k].movement_count = 0 /\ last.rows[k].current_quantity > 0

DetailedOps == {"reportInventory", "reportMovements", "exportDetailed"}

\* C19: the detailed movements report holds exactly the stored movements
\* stamped within the window, each once, every row labelled with the name
\* and the category its product has now, and the rows are in
\* non-increasing order of their stamps.
C19_DetailedReportRows ==
  (last.op \in DetailedOps /\ last.status = 200) =>
    /\ \A m \in DOMAIN movements :
         Cardinality({k \in DOMAIN last.rows : last.rows[k].id = m})
           = IF /\ last.window.start <= movements[m].movement_date
                /\ movements[m].movement_date <= last.window.end
             THEN 1 ELSE 0
    /\ \A k \in DOMAIN last.rows :
         LET row == last.rows[k] IN
         /\ row.id \in DOMAIN movements
         /\ row.product_id = movements[row.id].product_id
         /\ row.quantity_change = movements[row.id].quantity_change
         /\ row.total_price = movements[row.id].total_price
         /\ row.movement_date = movements[row.id].movement_date
         /\ row.product_name = products[row.product_id].name
         /\ row.product_category = products[row.product_id].category
    /\ \A i \in DOMAIN last.rows, j \in DOMAIN last.rows :
         i < j => last.rows[i].movement_date >= last.rows[j].movement_date

\* C19 witness: a detailed report of two movements with different stamps,
\* over a window that leaves a third stored movement out.
C19_Witness ==
  /\ last.op \in DetailedOps
  /\ last.status = 200
  /\ Len(last.rows) = 2
  /\ last.rows[1].movement_date > last.rows[2].movement_date
  /\ Cardinality(DOMAIN movements) = 3

ReportOps == DetailedOps \cup {"exportSummary"}

Rows(s) == {s[k] : k \in DOMAIN s}

\* C20: a step that answers a report leaves every product, balance,
\* movement and account as it was, and a summary report that follows a
\* summary report of the same window, with no write in between, holds the
\* same rows.
C20_ReportsReadOnlyIdempotent ==
  [][(last'.op \in ReportOps /\ last' # last) =>
       /\ UNCHANGED stored
       /\ (last'.op = "exportSummary" /\ last'.again) =>
            /\ Len(last'.rows) = Len(last.rows)
            /\ Rows(last'.rows) = Rows(last.rows)]_vars

\* C20 witness: the summary report of two products, one of them with a
\* balance, has been read twice in a row.
C20_Witness ==
  /\ last.op = "exportSummary"
  /\ last.again
  /\ Len(last.rows) = 2
  /\ \E k \in DOMAIN last.rows : last.rows[k].current_quantity > 0

\* C21: the unit price of every group of the summary table is the text
\* of total_price / quantity when the quantity of the group is greater
\* than zero and '0.00' when it is zero, and is never NaN or Infinity.
C21_UnitPriceDefined ==
  page.view = "summary" =>
    \A key \in DOMAIN page.groups :
      LET item == page.groups[key] IN
      /\ page.unitPrice[key].kind = "number"
      /\ Positive(item.quantity) =>
           page.unitPrice[key] = QuotientToFixed2(item.total_price, item.quantity)
      /\ item.quantity = Num(0, 0) => page.unitPrice[key] = ZeroText

\* C21 witness: a summary table with a group of quantity zero and a group
\* whose unit price has cents.
C21_Witness ==
  /\ page.view = "summary"
  /\ \E key \in DOMAIN page.groups :
       page.groups[key].quantity = Num(0, 0) /\ page.groups[key].total_price > 0
  /\ \E key \in DOMAIN page.groups :
       Positive(page.groups[key].quantity) /\ page.unitPrice[key].frac > 0

\* the exact sum of f over the set S
RECURSIVE SumOver(_, _)
SumOver(S, f) ==
  IF S = {} THEN 0
  ELSE LET x == CHOOSE y \in S : TRUE IN f[x] + SumOver(S \ {x}, f)

\* the rows of the report that carry the product name key
RowsOf(key) == {k \in DOMAIN page.report : page.report[k].product_name = key}

\* C22: the summary table has one group for every product name of the
\* report and no other; the quantity of a group is the sum of the absolute
\* quantity_change of the rows of that name and its total_price the sum of
\* their total_price; the two totals are the sums of the quantities and of
\* the total prices of the groups.
C22_GroupsPartitionAndSum ==
  page.view = "summary" =>
    /\ DOMAIN page.groups = {page.report[k].product_name : k \in DOMAIN page.report}
    /\ \A key \in DOMAIN page.groups :
         /\ page.groups[key].name = key
         /\ page.groups[key].quantity =
              Num(SumOver(RowsOf(key),
                          [k \in RowsOf(key) |-> page.report[k].quantity_change.hi]),
                  SumOver(RowsOf(key),
                          [k \in RowsOf(key) |->
                             Abs(page.report[k].quantity_change.lo)]))
         /\ page.groups[key].total_price =
              SumOver(RowsOf(key),
                      [k \in RowsOf(key) |-> page.report[k].total_price])
    /\ page.totalQuantity =
         Num(SumOver(DOMAIN page.groups,
                     [key \in DOMAIN page.groups |-> page.groups[key].quantity.hi]),
             SumOver(DOMAIN page.groups,
                     [key \in DOMAIN page.groups |-> page.groups[key].quantity.lo]))
    /\ page.totalValue =
         SumOver(DOMAIN page.groups,
                 [key \in DOMAIN page.groups |-> page.groups[key].total_price])

DayOf(t) == t \div TicksPerDay

\* C23: in a report the window starts at the first instant of the day of
\* a bare startDate and ends at the last instant of the day of a bare
\* endDate, and at the instant of a full timestamp; a detailed report
\* asked for with the same bare date D as startDate and endDate holds
\* exactly the stored movements stamped on day D.
C23_BareDatesCoverTheDay ==
  (last.op \in ReportOps /\ last.status = 200) =>
    LET q == last.query
        w == last.window
    IN
    /\ q.start.kind = "date" =>
         /\ DayOf(w.start) = q.start.at
         /\ w.start = 0 \/ DayOf(w.start - 1) # q.start.at
    /\ q.end.kind = "date" =>
         /\ DayOf(w.end) = q.end.at
         /\ DayOf(w.end + 1) # q.end.at
    /\ q.start.kind = "timestamp" => w.start = q.start.at
    /\ q.end.kind = "timestamp" => w.end = q.end.at
    /\ (/\ last.op \in DetailedOps
        /\ q.start.kind = "date"
        /\ q.end = q.start) =>
         {last.rows[k].id : k \in DOMAIN last.rows}
           = {m \in DOMAIN movements :
                DayOf(movements[m].movement_date) = q.start.at}

\* C23 witness: a detailed report asked for by the bare date of a day that
\* holds a movement stamped at the last instant of that day and another
\* one, while a movement of another day is stored.
C23_Witness ==
  /\ last.op \in DetailedOps
  /\ last.status = 200
  /\ last.query.start.kind = "date"
  /\ last.query.end = last.query.start
  /\ Len(last.rows) = 2
  /\ \E k \in DOMAIN last.rows : last.rows[k].movement_date = last.window.end
  /\ Cardinality(DOMAIN movements) = 3

\* C24: a delete request of a permitted caller for a product id, or for
\* an account id, that is not stored is answered not-found (404) and
\* changes no product, balance, movement or account.
C24_DeleteAbsentRecordIsNotFound ==
  [][ (/\ last'.op \in {"deleteProduct", "deleteUser"}
       /\ last'.caller \in DOMAIN users
       /\ Permitted(users[last'.caller], last'.op)
       /\ IF last'.op = "deleteProduct"
          THEN last'.id \notin DOMAIN products
          ELSE last'.id \notin DOMAIN users)
        => (last'.status = 404 /\ UNCHANGED stored) ]_vars

\* C25: a deletion of a movement that is answered 200 removes that
\* movement alone; on the balance rows it changes nothing but quantity,
\* total_price and last_updated, and those only in rows of the product of
\* the deleted movement: unit and updated_by stay as they were.  A record
\* request that is answered 201 leaves the unit of its movement in the
\* balance row of the product.
C25_DeleteMovementFrame ==
  [][ /\ (/\ LedgerCall("deleteMovement") /\ last'.status = 200
          /\ movements' # movements) =>
           /\ movements' = Remove(movements, {last'.id})
           /\ DOMAIN inventory' = DOMAIN inventory
           /\ \A i \in DOMAIN inventory :
                IF inventory[i].product_id = movements[last'.id].product_id
                THEN /\ inventory'[i].unit = inventory[i].unit
                     /\ inventory'[i].updated_by = inventory[i].updated_by
                     /\ inventory'[i].product_id = inventory[i].product_id
                ELSE inventory'[i] = inventory[i]
      /\ (/\ LedgerCall("record") /\ last'.status = 201
          /\ movements' # movements) =>
           \A i \in getInventoryItem(inventory', movements'[nextMovementId].product_id) :
             inventory'[i].unit = movements'[nextMovementId].unit ]_vars

\* C25 witness: the administrator has just deleted a movement of a
\* product whose balance row was last written by the other account and
\* holds the unit adet; a later movement of the product is still stored,
\* and the balance row of the other product was last written at an earlier
\* instant.
C25_Witness ==
  /\ last.op = "deleteMovement" /\ last.status = 200
  /\ \E i \in DOMAIN inventory :
       /\ inventory[i].unit = "adet"
       /\ inventory[i].updated_by # last.caller
       /\ inventory[i].last_updated = now
       /\ \E m \in DOMAIN movements :
            /\ movements[m].product_id = inventory[i].product_id
            /\ movements[m].movement_date < now
            /\ m > last.id
       /\ \E j \in DOMAIN inventory :
            /\ inventory[j].product_id # inventory[i].product_id
            /\ inventory[j].last_updated < now

HasBalance(inv, p) == getInventoryItem(inv, p) # {}

\* C26: a product has no balance row until a record request for it is
\* answered 201, which creates the row with the quantity, the unit and the
\* price of its movement; the row then stays until a deletion of the
\* product removes it, and when no movement of the product is stored any
\* more its quantity and its total_price are 0.
C26_BalanceLifeCycle ==
  [][ /\ \A p \in 1 .. MaxProductId :
           /\ (~HasBalance(inventory, p) /\ HasBalance(inventory', p)) =>
                /\ LedgerCall("record") /\ last'.status = 201
                /\ p \in DOMAIN products
                /\ movements'[nextMovementId].product_id = p
                /\ \A i \in getInventoryItem(inventory', p) :
                     /\ inventory'[i].quantity = movements'[nextMovementId].quantity_change
                     /\ inventory'[i].unit = movements'[nextMovementId].unit
                     /\ inventory'[i].total_price = movements'[nextMovementId].total_price
           /\ (HasBalance(inventory, p) /\ ~HasBalance(inventory', p)) =>
                /\ last'.op = "deleteProduct" /\ last'.status = 200
                /\ last'.id = p
           /\ (/\ LedgerCall("record") /\ last'.status = 201
               /\ movements' # movements
               /\ movements'[nextMovementId].product_id = p) =>
                HasBalance(inventory', p)
           /\ (HasBalance(inventory', p) /\ MovementsOf(movements', p) = {}) =>
                \A i \in getInventoryItem(inventory', p) :
                  inventory'[i].quantity = 0 /\ inventory'[i].total_price = 0
    ]_vars

\* C27: a movement that a request stores carries the kind "update", the id
\* of the caller of the request and the instant of the server clock,
\* whatever the body of the request names; a stored movement keeps them.
C27_MovementFieldsSetByServer ==
  [][ /\ \A m \in DOMAIN movements' \ DOMAIN movements :
           /\ movements'[m].movement_type = "update"
           /\ movements'[m].user_id = last'.caller
           /\ isAuthenticated(last'.caller)
           /\ movements'[m].movement_date = now
      /\ \A m \in DOMAIN movements' \cap DOMAIN movements :
           movements'[m] = movements[m] ]_vars

\* C27 witness: the stock keeper has just stored a movement at an instant
\* after 0 with a body that names the administrator and the instant 0.
C27_Witness ==
  /\ last.op = "record" /\ last.status = 201 /\ last.caller = 2
  /\ now > 0
  /\ \E m \in DOMAIN movements :
       /\ m + 1 = nextMovementId
       /\ movements[m].user_id = 2
       /\ movements[m].movement_date = now

AccountOps == {"getUsers", "postUser", "register", "login", "getUser"}

\* C28: no response of GET /api/users, POST /api/users, POST
\* /api/register, POST /api/login or GET /api/user holds the password hash
\* of an account.
C28_NoPasswordHashInResponses ==
  (last.op \in AccountOps /\ last.status \in {200, 201}) =>
    \A row \in last.body : "password" \notin DOMAIN row

\* C29: a request that carries the session of an account that is no
\* longer stored is answered with the error of the session restoration
\* (500) and changes no product, balance, movement or account.
C29_DeletedAccountCannotAct ==
  [][ (/\ last' # last
       /\ last'.caller # Anon
       /\ last'.caller \notin DOMAIN users)
        => (last'.status = 500 /\ UNCHANGED stored) ]_vars

\* C29 witness: an account that was an administrator has been deleted and
\* a request with its session has just been refused, while a product that
\* it could have deleted is stored.
C29_Witness ==
  /\ last.op = "request" /\ last.status = 500
  /\ last.caller \notin DOMAIN users
  /\ last.caller < nextUserId
  /\ DOMAIN products # {}

\* the endpoints that answer with products, balances or movements
DataOps == {"getProducts", "getInventory", "getLatestMovements",
            "reportInventory", "reportMovements", "export"}

\* C30: every endpoint that returns product, balance or movement data
\* answers 401 to a caller without a session.
C30_DataNeedsSession ==
  (last.op \in DataOps /\ last.caller = Anon) => last.status = 401

====
